---- MODULE Spec2Model ----
(***************************************************************************)
(* Study schedule generator: the /generate request handler                 *)
(* (src/app/routes.py), the udemy list parser                              *)
(* (src/app/services/parser_service.py) and the greedy day packer          *)
(* schedule_classes (src/app/services/scheduler_service.py).               *)
(*                                                                         *)
(* Numbers.  Parsed durations are Python ints (minutes).  apply_multiplier *)
(* turns them into floats; the model keeps every float as an integer count *)
(* of 1/Scale minutes (fixed point), which is exact for the multipliers    *)
(* drawn here (multiples of 1/Scale).  Binary rounding of floats that are  *)
(* not exactly representable is outside the model.                         *)
(*                                                                         *)
(* Dates.  A date is the number of days since 2024-01-01 (a Monday), so    *)
(* weekday() is date % 7.  datetime.date is a bounded type: adding a day   *)
(* to date.max raises OverflowError.  MaxDate stands for date.max.         *)
(***************************************************************************)
EXTENDS Integers, Sequences, FiniteSets, TLC

\* ---------------------------------------------------------------- bounds
\* Largest number of (status, title, "<N>min") triplets in class_input.
MaxItems == 2

\* The last representable date (datetime.date.max), in days since 2024-01-01.
MaxDate == 25

\* Fixed-point denominator of float values: a float x is kept as x * Scale.
Scale == 2

\* ------------------------------------------------------- form vocabulary
\* Texts a form field or an input line may hold, with the value int() gives.
IntLiteral ==
    [s \in {"-5", "-1", "0", "1", "2", "3", "4", "5", "6", "7",
            "60", "150"} |->
        CASE s = "-5" -> 0 - 5
          [] s = "-1" -> 0 - 1
          [] s = "0" -> 0
          [] s = "1" -> 1
          [] s = "2" -> 2
          [] s = "3" -> 3
          [] s = "4" -> 4
          [] s = "5" -> 5
          [] s = "6" -> 6
          [] s = "7" -> 7
          [] s = "60" -> 60
          [] s = "150" -> 150]

\* int(text): <<TRUE, value>>, or <<FALSE, 0>> where Python raises ValueError.
ParseInt(text) ==
    IF text \in DOMAIN IntLiteral THEN <<TRUE, IntLiteral[text]>> ELSE <<FALSE, 0>>

\* float(text) for the multiplier field, in fixed point.
FloatLiteral ==
    [s \in {"1", "1.5", "-1"} |->
        CASE s = "1" -> Scale
          [] s = "1.5" -> (3 * Scale) \div 2
          [] s = "-1" -> 0 - Scale]

ParseFloat(text) ==
    IF text \in DOMAIN FloatLiteral THEN <<TRUE, FloatLiteral[text]>> ELSE <<FALSE, 0>>

\* float(n) of an int n, in fixed point.
ToFloat(n) == n * Scale

\* Product of two fixed-point floats.
FloatMul(a, b) == (a * b) \div Scale

\* datetime.strptime(text, '%Y-%m-%d').date(), as days since 2024-01-01.
DateLiteral ==
    [s \in {"2024-01-01", "2024-01-02", "2024-01-03", "2024-01-04",
            "2024-01-05", "2024-01-06", "2024-01-07", "9999-12-31"} |->
        CASE s = "2024-01-01" -> 0
          [] s = "2024-01-02" -> 1
          [] s = "2024-01-03" -> 2
          [] s = "2024-01-04" -> 3
          [] s = "2024-01-05" -> 4
          [] s = "2024-01-06" -> 5
          [] s = "2024-01-07" -> 6
          [] s = "9999-12-31" -> MaxDate]

\* date.weekday(): 0 = Monday .. 6 = Sunday.
Weekday(d) == d % 7

\* ------------------------------------------------------------ input lines
\* A line of class_input is a sequence of tokens; the token "min" is the
\* substring 'min', every other token is text that does not contain it.
StatusLine == <<"Not Started">>
Titles == <<"A", "B", "C", "D">>
TitleLine(k) == <<Titles[k]>>
DurationLine(text) == <<text, "min">>

\* 'min' in line
ContainsMin(line) == \E k \in 1..Len(line) : line[k] = "min"

\* line.replace('min', '')
RemoveMin(line) == SelectSeq(line, LAMBDA t : t # "min")

\* line.strip(): tokens carry no surrounding whitespace.
Strip(line) == line

\* int(duration_str): the text left must be one integer literal.
ParseDuration(line) ==
    LET rest == RemoveMin(line)
    IN  IF Len(rest) = 1 THEN ParseInt(rest[1]) ELSE <<FALSE, 0>>

\* The loop of parse_udemy_list from index i on, classes collected so far.
RECURSIVE ParseFrom(_, _, _)
ParseFrom(lines, i, classes) ==
    IF i > Len(lines) THEN classes
    ELSE IF i + 2 <= Len(lines)
         THEN IF ContainsMin(Strip(lines[i + 2]))
              THEN LET d == ParseDuration(Strip(lines[i + 2]))
                   IN  IF d[1]
                       THEN ParseFrom(lines, i + 3,
                                Append(classes,
                                    <<Strip(lines[i]), Strip(lines[i + 1]), d[2]>>))
                       ELSE ParseFrom(lines, i + 1, classes)
              ELSE ParseFrom(lines, i + 1, classes)
         ELSE classes

parse_udemy_list(class_input) == ParseFrom(class_input, 1, <<>>)

\* ------------------------------------------------------- apply_multiplier
apply_multiplier(classes, multiplier) ==
    [k \in 1..Len(classes) |->
        <<classes[k][1], classes[k][2], FloatMul(ToFloat(classes[k][3]), multiplier)>>]

\* ------------------------------------------------------- schedule_classes
\* study_schedule is a dict in insertion order: a sequence of <<date, entries>>;
\* an entry is <<status, title, scheduled_duration, original_duration>>.
HasDate(study_schedule, date) ==
    \E k \in 1..Len(study_schedule) : study_schedule[k][1] = date

\* Variant of AppendEntry: the entry is inserted at the front of the day's list.
PrependEntry(study_schedule, date, entry) ==
    IF HasDate(study_schedule, date)
    THEN [k \in 1..Len(study_schedule) |->
            IF study_schedule[k][1] = date
            THEN <<date, <<entry>> \o study_schedule[k][2]>>
            ELSE study_schedule[k]]
    ELSE Append(study_schedule, <<date, <<entry>>>>)

\* if date not in study_schedule: study_schedule[date] = []
\* study_schedule[date].append(entry)
AppendEntry(study_schedule, date, entry) ==
    IF HasDate(study_schedule, date)
    THEN [k \in 1..Len(study_schedule) |->
            IF study_schedule[k][1] = date
            THEN <<date, Append(study_schedule[k][2], entry)>>
            ELSE study_schedule[k]]
    ELSE Append(study_schedule, <<date, <<entry>>>>)

\* daily_study_limit_minutes = daily_study_limit_hours * 60
LimitMinutes(hours) == ToFloat(hours * 60)

\* Variant of IsStudyDay: the weekday test is left out.
AnyDay(date, study_days) == TRUE

\* current_date.weekday() in study_days
IsStudyDay(date, study_days) == Weekday(date) \in study_days

\* Variant of FitsToday: a day with budget left takes the whole rest.
FitsIfBudgetLeft(time_left, remaining_duration) == time_left > 0

\* Variant: the comparison of line 48 with its operands exchanged.
FitsReversed(time_left, remaining_duration) == time_left <= remaining_duration

\* time_left >= remaining_duration
FitsToday(time_left, remaining_duration) == time_left >= remaining_duration

\* The entry appended when the rest of the class fits today.
WholeEntry(cls, remaining_duration, original_duration) ==
    <<cls[1], cls[2], remaining_duration, original_duration>>

\* Variant of SplitEntry: the fragment records the whole original duration.
SplitEntryWhole(cls, time_left, original_duration) ==
    <<cls[1], cls[2], original_duration, original_duration>>

\* Variant of SplitEntry: the fragment length is stored as the original duration.
SplitEntryFragment(cls, time_left, original_duration) ==
    <<cls[1], cls[2], time_left, time_left>>

\* The entry appended when the class is split at the end of today's budget.
SplitEntry(cls, time_left, original_duration) ==
    <<cls[1], cls[2], time_left, original_duration>>

\* Lines 47-61: the allocation of one pass of the while loop, on the locals
\* l = [study_schedule, current_date, time_left, remaining_duration].
Allocate(l, cls, original_duration, study_days) ==
    IF IsStudyDay(l.current_date, study_days)
    THEN IF FitsToday(l.time_left, l.remaining_duration)
         THEN [l EXCEPT
                 !.study_schedule = AppendEntry(@, l.current_date,
                     WholeEntry(cls, l.remaining_duration, original_duration)),
                 !.time_left = @ - l.remaining_duration,
                 !.remaining_duration = 0]
         ELSE [l EXCEPT
                 !.study_schedule = AppendEntry(@, l.current_date,
                     SplitEntry(cls, l.time_left, original_duration)),
                 !.remaining_duration = @ - l.time_left,
                 !.time_left = 0]
    ELSE l

\* Variant of MustAdvance: the date moves on only when the budget is spent.
AdvanceWhenSpent(time_left, date, study_days) == time_left = 0

\* Variant of MustAdvance: the date moves on after every pass.
AdvanceAlways(time_left, date, study_days) == TRUE

\* Variant of MustAdvance: a spent budget does not move the date on.
AdvanceWhenNotStudyDay(time_left, date, study_days) ==
    ~IsStudyDay(date, study_days)

\* time_left == 0 or current_date.weekday() not in study_days
MustAdvance(time_left, date, study_days) ==
    time_left = 0 \/ ~IsStudyDay(date, study_days)

\* current_date += timedelta(days=1) raises OverflowError at date.max.
Overflows(date) == date + 1 > MaxDate

\* Variant of Advance: the date moves on by two days.
AdvanceTwoDays(l, study_days, limit) ==
    IF l.time_left = 0 \/ ~IsStudyDay(l.current_date, study_days)
    THEN [l EXCEPT !.current_date = @ + 2, !.time_left = limit]
    ELSE l

\* Variant of Advance: the date moves on and the budget is not reset.
AdvanceKeepsBudget(l, study_days, limit) ==
    IF l.time_left = 0 \/ ~IsStudyDay(l.current_date, study_days)
    THEN [l EXCEPT !.current_date = @ + 1]
    ELSE l

\* Variant of Advance: the budget is reset and the date stays.
AdvanceResetOnly(l, study_days, limit) ==
    IF l.time_left = 0 \/ ~IsStudyDay(l.current_date, study_days)
    THEN [l EXCEPT !.time_left = limit]
    ELSE l

\* Lines 62-64 on the locals, when the date does not overflow.
Advance(l, study_days, limit) ==
    IF MustAdvance(l.time_left, l.current_date, study_days)
    THEN [l EXCEPT !.current_date = @ + 1, !.time_left = limit]
    ELSE l

\* Variant of WhileCondition: a class with nothing left enters the loop.
WhileNotNegative(remaining_duration) == remaining_duration >= 0

\* while remaining_duration > 0
WhileCondition(remaining_duration) == remaining_duration > 0

\* One pass of the while body (lines 47-64): the locals after it, and whether
\* OverflowError was raised on line 63 (the locals then keep line 61's values).
WhileBody(l, cls, original_duration, study_days, limit) ==
    LET a == Allocate(l, cls, original_duration, study_days)
    IN  IF MustAdvance(a.time_left, a.current_date, study_days)
           /\ Overflows(a.current_date)
        THEN [locals |-> a, raised |-> TRUE]
        ELSE [locals |-> Advance(a, study_days, limit), raised |-> FALSE]

\* The while loop of one class run to its end: the locals after it, and
\* whether OverflowError left it.
RECURSIVE RunWhile(_, _, _, _, _)
RunWhile(l, cls, original_duration, study_days, limit) ==
    IF WhileCondition(l.remaining_duration)
    THEN LET r == WhileBody(l, cls, original_duration, study_days, limit)
         IN  IF r.raised THEN r
             ELSE RunWhile(r.locals, cls, original_duration, study_days, limit)
    ELSE [locals |-> l, raised |-> FALSE]

\* The for loop from class k on.
RECURSIVE RunFor(_, _, _, _, _)
RunFor(l, classes, k, study_days, limit) ==
    IF k > Len(classes) THEN [locals |-> l, raised |-> FALSE]
    ELSE LET r == RunWhile([l EXCEPT !.remaining_duration = classes[k][3]],
                           classes[k], classes[k][3], study_days, limit)
         IN  IF r.raised THEN r
             ELSE RunFor(r.locals, classes, k + 1, study_days, limit)

\* schedule_classes as a function of its arguments: the locals at its end
\* (study_schedule is what line 66 returns) and whether it raised.
schedule_classes(classes, start_date, study_days, hours) ==
    RunFor([study_schedule |-> <<>>, current_date |-> start_date,
            time_left |-> LimitMinutes(hours), remaining_duration |-> 0],
           classes, 1, study_days, LimitMinutes(hours))

\* ------------------------------------- schedule_classes of src/app.py
\* The legacy scheduler works on the items themselves.  Its locals are
\* l = [classes, study_schedule, current_date, time_left]; an entry of its
\* schedule is <<"item", k>>, the k-th item object of classes itself
\* (line 259), or <<"copy", <<status, title, minutes>>>>, the list made by
\* cls[:] with its duration overwritten (lines 265-267).
LegacyAllocate(l, k, study_days) ==
    IF Weekday(l.current_date) \in study_days
    THEN IF l.time_left >= l.classes[k][3]
         THEN [l EXCEPT
                 !.study_schedule = AppendEntry(@, l.current_date, <<"item", k>>),
                 !.time_left = @ - l.classes[k][3],
                 !.classes[k][3] = 0]
         ELSE [l EXCEPT
                 !.study_schedule = AppendEntry(@, l.current_date,
                     <<"copy", <<l.classes[k][1], l.classes[k][2], l.time_left>>>>),
                 !.classes[k][3] = @ - l.time_left,
                 !.time_left = 0]
    ELSE l

\* Lines 254-272: the while loop of the k-th item, run to its end.
RECURSIVE LegacyWhile(_, _, _, _)
LegacyWhile(l, k, study_days, limit) ==
    IF l.classes[k][3] > 0
    THEN LET a == LegacyAllocate(l, k, study_days)
         IN  IF a.time_left = 0 \/ Weekday(a.current_date) \notin study_days
             THEN IF Overflows(a.current_date)
                  THEN [locals |-> a, raised |-> TRUE]
                  ELSE LegacyWhile([a EXCEPT !.current_date = @ + 1,
                                             !.time_left = limit],
                                   k, study_days, limit)
             ELSE LegacyWhile(a, k, study_days, limit)
    ELSE [locals |-> l, raised |-> FALSE]

\* Lines 253-272: the for loop from the k-th item on.
RECURSIVE LegacyFor(_, _, _, _)
LegacyFor(l, k, study_days, limit) ==
    IF k > Len(l.classes) THEN [locals |-> l, raised |-> FALSE]
    ELSE LET r == LegacyWhile(l, k, study_days, limit)
         IN  IF r.raised THEN r ELSE LegacyFor(r.locals, k + 1, study_days, limit)

\* schedule_classes of src/app.py: its locals at the end (study_schedule is
\* what line 274 returns, classes the caller's list as it leaves it) and
\* whether it raised.
legacy_schedule_classes(classes, start_date, study_days, hours) ==
    LegacyFor([classes |-> classes, study_schedule |-> <<>>,
               current_date |-> start_date, time_left |-> LimitMinutes(hours)],
              1, study_days, LimitMinutes(hours))

\* What a caller reads in the schedule the legacy scheduler returned: an
\* entry that is an item object shows the item as the scheduler left it.
LegacyRead(locals) ==
    [k \in 1..Len(locals.study_schedule) |->
        <<locals.study_schedule[k][1],
          [p \in 1..Len(locals.study_schedule[k][2]) |->
              LET entry == locals.study_schedule[k][2][p]
              IN  IF entry[1] = "item" THEN locals.classes[entry[2]]
                  ELSE entry[2]]>>]

\* ------------------------------------------------- create_calendar_events
\* datetime.strptime(text, '%H:%M').time(), as minutes since midnight.
TimeLiteral ==
    [s \in {"09:00", "23:30"} |->
        CASE s = "09:00" -> 9 * 60
          [] s = "23:30" -> 23 * 60 + 30]

\* pytz.timezone(name): the UTC offset, in minutes, that localize attaches
\* (America/Sao_Paulo has had no daylight saving time since 2019).
ZoneOffset == [s \in {"America/Sao_Paulo"} |-> 0 - 3 * 60]

\* datetime.combine(day, time): minutes since 2024-01-01 00:00.
Combine(day, time) == day * (24 * 60) + time

\* datetime + timedelta raises OverflowError past 9999-12-31 23:59.
DatetimeOverflows(minutes) == minutes >= (MaxDate + 1) * (24 * 60)

\* The decimal digits of n >= 0.
RECURSIVE Digits(_)
Digits(n) == IF n < 10 THEN <<n>> ELSE Digits(n \div 10) \o <<n % 10>>

\* f"{n:02d}" for n >= 0: the digits, zero-padded to two.
TwoDigits(n) == IF n < 10 THEN <<0, n>> ELSE Digits(n)

\* Variant of DurationStrAt: the seconds are rounded to the nearest second
\* before they are split into fields.
DurationStrRounded(original_duration_minutes, scale) ==
    LET total_seconds == (original_duration_minutes * 60 + scale \div 2) \div scale
    IN  <<TwoDigits(total_seconds \div 3600),
          TwoDigits((total_seconds % 3600) \div 60),
          TwoDigits(total_seconds % 60)>>

\* Lines 106-112 for a duration in minutes that is a fixed-point float of
\* the given scale (units per minute): total_seconds is kept in the same
\* fixed point, int(x // 3600), int((x % 3600) // 60) and int(x % 60) floor.
\* The result is <<hours digits, minutes digits, seconds digits>>.
DurationStrAt(original_duration_minutes, scale) ==
    LET total_seconds == original_duration_minutes * 60
        hours == total_seconds \div (3600 * scale)
        minutes == (total_seconds % (3600 * scale)) \div (60 * scale)
        seconds == (total_seconds % (60 * scale)) \div scale
    IN  <<TwoDigits(hours), TwoDigits(minutes), TwoDigits(seconds)>>

\* Lines 106-112 for a duration of the schedule.
DurationStr(original_duration_minutes) ==
    DurationStrAt(original_duration_minutes, Scale)

\* Variant of DescriptionLine: the scheduled fragment length is shown.
DescriptionLineScheduled(cls) == <<"class", cls[2], DurationStr(cls[3])>>

\* Lines 101-114: the description line of one entry of the day, as
\* <<bullet, class_name, duration_str>>.
DescriptionLine(cls) == <<"class", cls[2], DurationStr(cls[4])>>

\* Lines 99-118: the description of a day, a sequence of lines.
Description(day_classes) ==
    <<"Classes for today:">>
    \o [p \in 1..Len(day_classes) |-> DescriptionLine(day_classes[p])]
    \o <<"Update as you complete each class!">>

\* Variant of EventEnd: the event ends at the same wall-clock time next day.
EventEndNextDay(start_minutes, hours) == start_minutes + 24 * 60

\* Line 91: end_datetime, in minutes since 2024-01-01 00:00.
EventEnd(start_minutes, hours) == start_minutes + hours * 60

\* Lines 89-119: the event of one item of study_schedule.
CalendarEvent(item, start_time_str, timezone, hours, course_name) ==
    LET start_minutes == Combine(item[1], TimeLiteral[start_time_str])
    IN  [summary |-> <<course_name, "- Study Block">>,
         dtstart |-> [minutes |-> start_minutes, utcoffset |-> ZoneOffset[timezone]],
         dtend |-> [minutes |-> EventEnd(start_minutes, hours),
                    utcoffset |-> ZoneOffset[timezone]],
         description |-> Description(item[2])]

\* Whether building the event of this item raises: ValueError from strptime
\* (line 89) or OverflowError from the addition (line 91).
EventRaises(item, start_time_str, hours) ==
    \/ start_time_str \notin DOMAIN TimeLiteral
    \/ DatetimeOverflows(Combine(item[1], TimeLiteral[start_time_str]) + hours * 60)

\* Variant of EventsFrom: the components are emitted newest first.
RECURSIVE EventsNewestFirst(_, _, _, _, _, _)
EventsNewestFirst(study_schedule, k, start_time_str, timezone, hours, course_name) ==
    IF k > Len(study_schedule) THEN <<>>
    ELSE EventsNewestFirst(study_schedule, k + 1, start_time_str, timezone, hours,
                           course_name)
         \o <<CalendarEvent(study_schedule[k], start_time_str, timezone, hours,
                            course_name)>>

\* Line 88: the loop over study_schedule.items() from the k-th item on.
RECURSIVE EventsFrom(_, _, _, _, _, _)
EventsFrom(study_schedule, k, start_time_str, timezone, hours, course_name) ==
    IF k > Len(study_schedule) THEN <<>>
    ELSE <<CalendarEvent(study_schedule[k], start_time_str, timezone, hours,
                         course_name)>>
         \o EventsFrom(study_schedule, k + 1, start_time_str, timezone, hours,
                       course_name)

\* create_calendar_events: the components added to the calendar, in order,
\* and whether an exception left the function.
create_calendar_events(study_schedule, start_time_str, timezone, hours, course_name) ==
    IF \E k \in 1..Len(study_schedule) :
           EventRaises(study_schedule[k], start_time_str, hours)
    THEN [events |-> <<>>, raised |-> TRUE]
    ELSE [events |-> EventsFrom(study_schedule, 1, start_time_str, timezone, hours,
                                course_name),
          raised |-> FALSE]

\* ------------------------------------------------------------------ state
VARIABLES
    form,                      \* request.form of the POST /generate request
    pc,                        \* where the request is
    response,                  \* what the handler answered
    classes,                   \* schedule_classes: the list it was called with
    study_days,                \* schedule_classes: its study_days argument
    daily_study_limit_hours,   \* schedule_classes: its daily limit argument
    i,                         \* number of classes the for loop has taken
    original_duration,         \* local of the for body
    study_schedule,            \* local: the dict being built
    current_date,              \* local
    time_left,                 \* local
    remaining_duration,        \* local of the for body
    start_time_str,            \* generate_schedule: request.form['start_time']
    events                     \* the components of the calendar that was built

\* The state of the other parts of the application, each of which is
\* exercised by a specification of its own.
VARIABLES
    duration_minutes,          \* create_calendar_events: a duration to render
    duration_str,              \* create_calendar_events: its HH:MM:SS text
    session,                   \* the Flask session (cookie) of each browser
    google_log,                \* the answers of the Google routes, in order
    parser_instance,           \* html_parser_agent._parser_instance
    constructed,               \* HTMLCourseParser objects constructed so far
    api_key,                   \* whether GOOGLE_API_KEY is in the environment
    thread_pc,                 \* where each request thread is in get_html_parser
    thread_new,                \* the object each thread has just constructed
    thread_result,             \* what get_html_parser returned to each thread
    input_lines,               \* parse_udemy_list: lines
    line_index,                \* parse_udemy_list: i
    parsed_classes,            \* parse_udemy_list: classes
    parser_pc                  \* where parse_udemy_list is

schedulerVars ==
    <<form, pc, response, classes, study_days, daily_study_limit_hours, i,
      original_duration, study_schedule, current_date, time_left,
      remaining_duration, start_time_str, events>>
renderVars == <<duration_minutes, duration_str>>
oauthVars == <<session, google_log>>
singletonVars ==
    <<parser_instance, constructed, api_key, thread_pc, thread_new, thread_result>>
parserVars == <<input_lines, line_index, parsed_classes, parser_pc>>
otherVars == <<renderVars, oauthVars, singletonVars, parserVars>>
vars == <<schedulerVars, otherVars>>

\* The bounds of the other parts: browsers and Google requests, request
\* threads and calls of get_html_parser per thread.
MaxBrowsers == 2
MaxRequests == 3
MaxThreads == 2
MaxCalls == 2
Browsers == 1..MaxBrowsers
Threads == 1..MaxThreads

\* No duration is being rendered.
RenderIdle == duration_minutes = 0 /\ duration_str = <<>>

\* No browser has a session cookie and no Google route was requested.
OAuthIdle ==
    /\ session = [b \in Browsers |-> {}]
    /\ google_log = <<>>

\* The process has just imported html_parser_agent (line 285) and no
\* thread is in get_html_parser.
SingletonIdle ==
    /\ parser_instance = <<"None">>
    /\ constructed = 0
    /\ thread_pc = [t \in Threads |-> "idle"]
    /\ thread_new = [t \in Threads |-> <<"None">>]
    /\ thread_result = [t \in Threads |-> <<>>]

\* parse_udemy_list is not running.
ParserIdle ==
    /\ input_lines = <<>>
    /\ line_index = 0
    /\ parsed_classes = <<>>
    /\ parser_pc = "idle"

\* --------------------------------------------------------------- requests
DurationTexts == {"-5", "0", "60", "150"}
HoursTexts == {"0", "1", "2", "abc"}
MultiplierTexts == {"1", "1.5", "-1", "abc"}
StartDateTexts == {"2024-01-01", "2024-01-02", "2024-01-06", "9999-12-31"}
StartTimeTexts == {"09:00", "23:30", "9am"}
StudyDaysLists ==
    {<<>>, <<"0">>, <<"0", "1">>, <<"0", "2", "4">>,
     <<"0", "1", "2", "3", "4", "5", "6">>, <<"7">>}

\* The text of a udemy list: one (status, title, "<N>min") triplet per item.
RECURSIVE TripletLines(_, _)
TripletLines(durations, k) ==
    IF k > Len(durations) THEN <<>>
    ELSE <<StatusLine, TitleLine(k), DurationLine(durations[k])>>
         \o TripletLines(durations, k + 1)

ClassInputs ==
    {TripletLines(d, 1) : d \in UNION {[1..n -> DurationTexts] : n \in 0..MaxItems}}

Forms ==
    [start_date : StartDateTexts,
     study_days : StudyDaysLists,
     daily_study_limit_hours : HoursTexts,
     multiplier : MultiplierTexts,
     class_input : ClassInputs]

\* The locals of schedule_classes as one record.
Locals ==
    [study_schedule |-> study_schedule, current_date |-> current_date,
     time_left |-> time_left, remaining_duration |-> remaining_duration]

Init ==
    /\ form \in Forms
    /\ pc = "request"
    /\ response = "none"
    /\ classes = <<>>
    /\ study_days = {}
    /\ daily_study_limit_hours = 0
    /\ i = 0
    /\ original_duration = 0
    /\ study_schedule = <<>>
    /\ current_date = 0
    /\ time_left = 0
    /\ remaining_duration = 0
    /\ start_time_str = ""
    /\ events = <<>>
    /\ RenderIdle
    /\ OAuthIdle
    /\ SingletonIdle
    /\ api_key = TRUE
    /\ ParserIdle

\* Every conversion of a form field on lines 164-214 succeeds.
FormConverts(f) ==
    /\ ParseInt(f.daily_study_limit_hours)[1]
    /\ ParseFloat(f.multiplier)[1]
    /\ f.start_date \in DOMAIN DateLiteral
    /\ \A k \in 1..Len(f.study_days) : ParseInt(f.study_days[k])[1]

\* generate_schedule, lines 162-220: convert the form, parse the list, apply
\* the multiplier and enter schedule_classes (its lines 36-39).
GenerateScheduleCall ==
    /\ pc = "request"
    /\ FormConverts(form)
    /\ classes' = apply_multiplier(parse_udemy_list(form.class_input),
                                   ParseFloat(form.multiplier)[2])
    /\ study_days' = {ParseInt(form.study_days[k])[2] : k \in 1..Len(form.study_days)}
    /\ daily_study_limit_hours' = ParseInt(form.daily_study_limit_hours)[2]
    /\ study_schedule' = <<>>
    /\ current_date' = DateLiteral[form.start_date]
    /\ time_left' = LimitMinutes(daily_study_limit_hours')
    /\ i' = 0
    /\ pc' = "for"
    /\ UNCHANGED <<form, response, original_duration, remaining_duration, start_time_str, events>>

    /\ UNCHANGED otherVars
\* generate_schedule, lines 241-242: a conversion raised ValueError.
GenerateScheduleBadForm ==
    /\ pc = "request"
    /\ ~FormConverts(form)
    /\ response' = "error500"
    /\ pc' = "done"
    /\ UNCHANGED <<form, classes, study_days, daily_study_limit_hours, i,
                   original_duration, study_schedule, current_date, time_left,
                   remaining_duration, start_time_str, events>>

    /\ UNCHANGED otherVars
\* schedule_classes, lines 41-44: the for loop takes the next class.
ForNext ==
    /\ pc = "for"
    /\ i < Len(classes)
    /\ i' = i + 1
    /\ original_duration' = classes[i + 1][3]
    /\ remaining_duration' = classes[i + 1][3]
    /\ pc' = "while"
    /\ UNCHANGED <<form, response, classes, study_days, daily_study_limit_hours,
                   study_schedule, current_date, time_left, start_time_str, events>>

    /\ UNCHANGED otherVars
\* schedule_classes, line 46: the while condition is false.
WhileExit ==
    /\ pc = "while"
    /\ ~WhileCondition(remaining_duration)
    /\ pc' = "for"
    /\ UNCHANGED <<form, response, classes, study_days, daily_study_limit_hours, i,
                   original_duration, study_schedule, current_date, time_left,
                   remaining_duration, start_time_str, events>>

    /\ UNCHANGED otherVars
\* Variant of WhilePass: what is left of the class is written back into the
\* item of the input list.
WhilePassInPlace ==
    /\ pc = "while"
    /\ WhileCondition(remaining_duration)
    /\ LET r == WhileBody(Locals, classes[i], original_duration, study_days,
                          LimitMinutes(daily_study_limit_hours))
       IN  /\ study_schedule' = r.locals.study_schedule
           /\ current_date' = r.locals.current_date
           /\ time_left' = r.locals.time_left
           /\ remaining_duration' = r.locals.remaining_duration
           /\ classes' = [classes EXCEPT ![i][3] = r.locals.remaining_duration]
           /\ pc' = IF r.raised THEN "raised" ELSE "while"
    /\ UNCHANGED <<form, response, study_days, daily_study_limit_hours, i,
                   original_duration, start_time_str, events>>

    /\ UNCHANGED otherVars
\* schedule_classes, lines 46-64: one pass of the while body.
WhilePass ==
    /\ pc = "while"
    /\ WhileCondition(remaining_duration)
    /\ LET r == WhileBody(Locals, classes[i], original_duration, study_days,
                          LimitMinutes(daily_study_limit_hours))
       IN  /\ study_schedule' = r.locals.study_schedule
           /\ current_date' = r.locals.current_date
           /\ time_left' = r.locals.time_left
           /\ remaining_duration' = r.locals.remaining_duration
           /\ pc' = IF r.raised THEN "raised" ELSE "while"
    /\ UNCHANGED <<form, response, classes, study_days, daily_study_limit_hours, i,
                   original_duration, start_time_str, events>>

    /\ UNCHANGED otherVars
\* Line 48-54: the pass in which the rest of the class fits today.
AllocateWhole ==
    /\ IsStudyDay(current_date, study_days)
    /\ FitsToday(time_left, remaining_duration)
    /\ WhilePass

\* Lines 55-61: the pass in which the class is split.
AllocateSplit ==
    /\ IsStudyDay(current_date, study_days)
    /\ ~FitsToday(time_left, remaining_duration)
    /\ WhilePass

\* Lines 62-64 alone: the pass on a day that is not a study day.
SkipDay ==
    /\ ~IsStudyDay(current_date, study_days)
    /\ WhilePass

\* schedule_classes, line 66: the for loop is over, the schedule is returned.
ReturnSchedule ==
    /\ pc = "for"
    /\ i = Len(classes)
    /\ pc' = "returned"
    /\ UNCHANGED <<form, response, classes, study_days, daily_study_limit_hours, i,
                   original_duration, study_schedule, current_date, time_left,
                   remaining_duration, start_time_str, events>>

    /\ UNCHANGED otherVars
\* The call of create_calendar_events on lines 223-229.
CalendarCall(start_time) ==
    create_calendar_events(study_schedule, start_time, "America/Sao_Paulo",
                           daily_study_limit_hours, "Study")

\* generate_schedule, lines 222-239: the calendar is built (the spreadsheet
\* of line 232 reads the parsed list only) and success is answered.  The
\* start_time field is read on line 166 and first used here, so its value is
\* drawn here.
GenerateScheduleRespond ==
    /\ pc = "returned"
    /\ \E t \in StartTimeTexts :
          /\ ~CalendarCall(t).raised
          /\ start_time_str' = t
          /\ events' = CalendarCall(t).events
    /\ response' = "success"
    /\ pc' = "done"
    /\ UNCHANGED <<form, classes, study_days, daily_study_limit_hours, i,
                   original_duration, study_schedule, current_date, time_left,
                   remaining_duration>>

    /\ UNCHANGED otherVars
\* generate_schedule, lines 241-242: create_calendar_events raised.
GenerateScheduleCalendarExcept ==
    /\ pc = "returned"
    /\ \E t \in StartTimeTexts :
          /\ CalendarCall(t).raised
          /\ start_time_str' = t
    /\ response' = "error500"
    /\ pc' = "done"
    /\ UNCHANGED <<form, classes, study_days, daily_study_limit_hours, i,
                   original_duration, study_schedule, current_date, time_left,
                   remaining_duration, events>>

    /\ UNCHANGED otherVars
\* generate_schedule, lines 241-242: OverflowError left schedule_classes.
GenerateScheduleExcept ==
    /\ pc = "raised"
    /\ response' = "error500"
    /\ pc' = "done"
    /\ UNCHANGED <<form, classes, study_days, daily_study_limit_hours, i,
                   original_duration, study_schedule, current_date, time_left,
                   remaining_duration, start_time_str, events>>

    /\ UNCHANGED otherVars
Next ==
    \/ GenerateScheduleCall
    \/ GenerateScheduleBadForm
    \/ ForNext
    \/ WhileExit
    \/ AllocateWhole
    \/ AllocateSplit
    \/ SkipDay
    \/ ReturnSchedule
    \/ GenerateScheduleRespond
    \/ GenerateScheduleCalendarExcept
    \/ GenerateScheduleExcept

Spec == Init /\ [][Next]_vars

\* A request that is being served is served to its end.
FairSpec == Spec /\ WF_vars(Next)

\* ------------------------------------------------- rendering a duration
\* No request is being served.
SchedulerIdle ==
    /\ form = [start_date |-> "", study_days |-> <<>>,
               daily_study_limit_hours |-> "", multiplier |-> "",
               class_input |-> <<>>]
    /\ pc = "idle"
    /\ response = "none"
    /\ classes = <<>>
    /\ study_days = {}
    /\ daily_study_limit_hours = 0
    /\ i = 0
    /\ original_duration = 0
    /\ study_schedule = <<>>
    /\ current_date = 0
    /\ time_left = 0
    /\ remaining_duration = 0
    /\ start_time_str = ""
    /\ events = <<>>

\* The durations that are rendered are floats kept in fixed point, in
\* units of 1/RenderScale minute (half a second), up to MaxDurationUnits.
RenderScale == 120
MaxDurationUnits == 10861

RenderInit ==
    /\ SchedulerIdle
    /\ duration_minutes \in 0..MaxDurationUnits
    /\ duration_str = <<>>
    /\ OAuthIdle
    /\ SingletonIdle
    /\ api_key = TRUE
    /\ ParserIdle

\* create_calendar_events, lines 103-112: one duration is rendered.
RenderDuration ==
    /\ duration_str = <<>>
    /\ duration_str' = DurationStrAt(duration_minutes, RenderScale)
    /\ UNCHANGED <<schedulerVars, duration_minutes, oauthVars, singletonVars,
                   parserVars>>

RenderNext == RenderDuration

RenderSpec == RenderInit /\ [][RenderNext]_vars

\* -------------------------------------------------------- Google routes
\* GoogleAPIService.__init__ via get_google_service(session): the session
\* argument is "None" or the browser whose Flask session was passed.
get_google_service(session_arg) ==
    [credentials |-> "None", session |-> session_arg]

\* handle_oauth_callback: fetch_token raises when the exchange fails; else
\* the credentials are kept on the service object and, when the object has
\* a session, saved under 'google_credentials'.  store is the sessions.
handle_oauth_callback(service, store, token_ok) ==
    IF ~token_ok
    THEN [raised |-> TRUE, service |-> service, store |-> store]
    ELSE [raised |-> FALSE,
          service |-> [service EXCEPT !.credentials = "token"],
          store |-> IF service.session # "None"
                    THEN [store EXCEPT ![service.session] =
                                           @ \cup {"google_credentials"}]
                    ELSE store]

\* load_credentials: False without a session or without saved credentials,
\* and when an expired token with a refresh token fails to refresh.
load_credentials(service, store, refresh_fails) ==
    IF service.session = "None"
    THEN FALSE
    ELSE IF "google_credentials" \notin store[service.session]
         THEN FALSE
         ELSE ~refresh_fails

\* The answer of a route is appended to the log.
Answer(b, route, status) ==
    google_log' = Append(google_log, [browser |-> b, route |-> route,
                                      status |-> status])

\* routes.py 267-282: /oauth2callback, requested by browser b.
Oauth2Callback ==
    /\ Len(google_log) < MaxRequests
    /\ \E b \in Browsers, token_ok \in BOOLEAN :
          LET google_service == get_google_service("None")
              r == handle_oauth_callback(google_service, session, token_ok)
          IN  /\ session' = r.store
              /\ Answer(b, "/oauth2callback", IF r.raised THEN 400 ELSE 200)
    /\ UNCHANGED <<schedulerVars, renderVars, singletonVars, parserVars>>

\* The part the three authenticated routes share: get_google_service(),
\* load_credentials() or 401, then the call of the Google API.
Authenticated(b, route, refresh_fails, api_ok) ==
    LET google_service == get_google_service("None")
    IN  IF ~load_credentials(google_service, session, refresh_fails)
        THEN Answer(b, route, 401)
        ELSE Answer(b, route, IF api_ok THEN 200 ELSE 500)

\* routes.py 285-313: /google/calendars.
ListGoogleCalendars ==
    /\ Len(google_log) < MaxRequests
    /\ \E b \in Browsers, refresh_fails \in BOOLEAN, api_ok \in BOOLEAN :
          Authenticated(b, "/google/calendars", refresh_fails, api_ok)
    /\ UNCHANGED <<session, schedulerVars, renderVars, singletonVars, parserVars>>

\* routes.py 316-350: /google/import-calendar; 400 without calendar_data.
ImportToGoogleCalendar ==
    /\ Len(google_log) < MaxRequests
    /\ \E b \in Browsers, has_data \in BOOLEAN, refresh_fails \in BOOLEAN,
          api_ok \in BOOLEAN :
          IF ~has_data THEN Answer(b, "/google/import-calendar", 400)
          ELSE Authenticated(b, "/google/import-calendar", refresh_fails, api_ok)
    /\ UNCHANGED <<session, schedulerVars, renderVars, singletonVars, parserVars>>

\* routes.py 353-395: /google/upload-drive; 400 without spreadsheet_data.
UploadToGoogleDrive ==
    /\ Len(google_log) < MaxRequests
    /\ \E b \in Browsers, has_data \in BOOLEAN, refresh_fails \in BOOLEAN,
          api_ok \in BOOLEAN :
          IF ~has_data THEN Answer(b, "/google/upload-drive", 400)
          ELSE Authenticated(b, "/google/upload-drive", refresh_fails, api_ok)
    /\ UNCHANGED <<session, schedulerVars, renderVars, singletonVars, parserVars>>

OAuthInit ==
    /\ SchedulerIdle
    /\ RenderIdle
    /\ OAuthIdle
    /\ SingletonIdle
    /\ api_key = TRUE
    /\ ParserIdle

OAuthNext ==
    \/ Oauth2Callback
    \/ ListGoogleCalendars
    \/ ImportToGoogleCalendar
    \/ UploadToGoogleDrive

OAuthSpec == OAuthInit /\ [][OAuthNext]_vars

\* ------------------------------------------------------ get_html_parser
\* Request threads run get_html_parser (html_parser_agent.py 288-293)
\* interleaved: the test of line 291, the construction and the store of
\* line 292 and the read of line 293 are separate steps of a thread.
\* thread_result[t] lists what the calls of thread t returned or raised.
\* Values are <<"None">>, <<"ValueError">> or <<"HTMLCourseParser", n>>, the
\* n-th object the class has constructed.

\* routes.py 188-196: thread t enters get_html_parser.
GetHtmlParserCall(t) ==
    /\ thread_pc[t] = "idle"
    /\ Len(thread_result[t]) < MaxCalls
    /\ thread_pc' = [thread_pc EXCEPT ![t] = "test"]
    /\ UNCHANGED <<parser_instance, constructed, api_key, thread_new, thread_result>>
    /\ UNCHANGED <<schedulerVars, renderVars, oauthVars, parserVars>>

\* Line 291: if _parser_instance is None.
TestInstance(t) ==
    /\ thread_pc[t] = "test"
    /\ thread_pc' = [thread_pc EXCEPT ![t] =
                        IF parser_instance = <<"None">> THEN "construct" ELSE "return"]
    /\ UNCHANGED <<parser_instance, constructed, api_key, thread_new, thread_result>>
    /\ UNCHANGED <<schedulerVars, renderVars, oauthVars, parserVars>>

\* Line 292, right-hand side: HTMLCourseParser() returns a new object.
Construct(t) ==
    /\ thread_pc[t] = "construct"
    /\ api_key
    /\ constructed' = constructed + 1
    /\ thread_new' = [thread_new EXCEPT ![t] = <<"HTMLCourseParser", constructed + 1>>]
    /\ thread_pc' = [thread_pc EXCEPT ![t] = "store"]
    /\ UNCHANGED <<parser_instance, api_key, thread_result>>
    /\ UNCHANGED <<schedulerVars, renderVars, oauthVars, parserVars>>

\* Line 292, right-hand side: HTMLCourseParser.__init__ raises ValueError
\* (lines 31-33) and the call is left.
ConstructRaises(t) ==
    /\ thread_pc[t] = "construct"
    /\ ~api_key
    /\ thread_result' = [thread_result EXCEPT ![t] = Append(@, <<"ValueError">>)]
    /\ thread_pc' = [thread_pc EXCEPT ![t] = "idle"]
    /\ UNCHANGED <<parser_instance, constructed, api_key, thread_new>>
    /\ UNCHANGED <<schedulerVars, renderVars, oauthVars, parserVars>>

\* Line 292, the assignment to the global.
StoreInstance(t) ==
    /\ thread_pc[t] = "store"
    /\ parser_instance' = thread_new[t]
    /\ thread_new' = [thread_new EXCEPT ![t] = <<"None">>]
    /\ thread_pc' = [thread_pc EXCEPT ![t] = "return"]
    /\ UNCHANGED <<constructed, api_key, thread_result>>
    /\ UNCHANGED <<schedulerVars, renderVars, oauthVars, parserVars>>

\* Line 293: return _parser_instance.
ReturnInstance(t) ==
    /\ thread_pc[t] = "return"
    /\ thread_result' = [thread_result EXCEPT ![t] = Append(@, parser_instance)]
    /\ thread_pc' = [thread_pc EXCEPT ![t] = "idle"]
    /\ UNCHANGED <<parser_instance, constructed, api_key, thread_new>>
    /\ UNCHANGED <<schedulerVars, renderVars, oauthVars, parserVars>>

SingletonInit ==
    /\ SchedulerIdle
    /\ RenderIdle
    /\ OAuthIdle
    /\ SingletonIdle
    /\ api_key \in BOOLEAN
    /\ ParserIdle

SingletonNext ==
    \E t \in Threads :
        \/ GetHtmlParserCall(t)
        \/ TestInstance(t)
        \/ Construct(t)
        \/ ConstructRaises(t)
        \/ StoreInstance(t)
        \/ ReturnInstance(t)

SingletonSpec == SingletonInit /\ [][SingletonNext]_vars

\* ----------------------------------------------------- parse_udemy_list
\* The loop of parse_udemy_list (parser_service.py 22-39) one iteration at a
\* time.  line_index is the 0-based i of the code: lines[i] is
\* input_lines[line_index + 1].

\* Longest class_input, in lines.
MaxLines == 7

\* Lines an input is made of: two lines without 'min', a duration line and
\* a line with 'min' whose rest is not an integer.
InputLines == {StatusLine, TitleLine(1), DurationLine("60"), DurationLine("abc")}

\* class_input.split('\n') has at least one line.
LineInputs == UNION {[1..n -> InputLines] : n \in 1..MaxLines}

\* Variant of SkipLine: a window that is no triplet is skipped whole.
SkipWindow(index) == index + 3

\* i += 1 (lines 35 and 37)
SkipLine(index) == index + 1

\* lines[i + 2].strip()
DurationLineAt(index) == Strip(input_lines[index + 3])

\* Lines 19-22: classes = [], lines = class_input.split('\n'), i = 0.
ParseCall ==
    /\ parser_pc = "call"
    /\ parsed_classes' = <<>>
    /\ line_index' = 0
    /\ parser_pc' = "while"
    /\ UNCHANGED input_lines
    /\ UNCHANGED <<schedulerVars, renderVars, oauthVars, singletonVars>>

\* Lines 23-33: the window is a triplet; it is appended and i += 3.
ParseTriplet ==
    /\ parser_pc = "while"
    /\ line_index < Len(input_lines)
    /\ line_index + 2 < Len(input_lines)
    /\ ContainsMin(DurationLineAt(line_index))
    /\ ParseDuration(DurationLineAt(line_index))[1]
    /\ parsed_classes' = Append(parsed_classes,
                            <<Strip(input_lines[line_index + 1]),
                              Strip(input_lines[line_index + 2]),
                              ParseDuration(DurationLineAt(line_index))[2]>>)
    /\ line_index' = line_index + 3
    /\ UNCHANGED <<input_lines, parser_pc>>
    /\ UNCHANGED <<schedulerVars, renderVars, oauthVars, singletonVars>>

\* Lines 34-35: int() raises ValueError; the first line of the window is dropped.
ParseValueError ==
    /\ parser_pc = "while"
    /\ line_index < Len(input_lines)
    /\ line_index + 2 < Len(input_lines)
    /\ ContainsMin(DurationLineAt(line_index))
    /\ ~ParseDuration(DurationLineAt(line_index))[1]
    /\ line_index' = SkipLine(line_index)
    /\ UNCHANGED <<input_lines, parsed_classes, parser_pc>>
    /\ UNCHANGED <<schedulerVars, renderVars, oauthVars, singletonVars>>

\* Lines 36-37: the third line of the window has no 'min'.
ParseNoMin ==
    /\ parser_pc = "while"
    /\ line_index < Len(input_lines)
    /\ line_index + 2 < Len(input_lines)
    /\ ~ContainsMin(DurationLineAt(line_index))
    /\ line_index' = SkipLine(line_index)
    /\ UNCHANGED <<input_lines, parsed_classes, parser_pc>>
    /\ UNCHANGED <<schedulerVars, renderVars, oauthVars, singletonVars>>

\* Lines 38-40: fewer than three lines are left: break, return classes.
ParseBreak ==
    /\ parser_pc = "while"
    /\ line_index < Len(input_lines)
    /\ ~(line_index + 2 < Len(input_lines))
    /\ parser_pc' = "returned"
    /\ UNCHANGED <<input_lines, parsed_classes, line_index>>
    /\ UNCHANGED <<schedulerVars, renderVars, oauthVars, singletonVars>>

\* Lines 23, 40: the while condition is false: return classes.
ParseReturn ==
    /\ parser_pc = "while"
    /\ ~(line_index < Len(input_lines))
    /\ parser_pc' = "returned"
    /\ UNCHANGED <<input_lines, parsed_classes, line_index>>
    /\ UNCHANGED <<schedulerVars, renderVars, oauthVars, singletonVars>>

ParserInit ==
    /\ SchedulerIdle
    /\ RenderIdle
    /\ OAuthIdle
    /\ SingletonIdle
    /\ api_key = TRUE
    /\ input_lines \in LineInputs
    /\ line_index = 0
    /\ parsed_classes = <<>>
    /\ parser_pc = "call"

ParserNext ==
    \/ ParseCall
    \/ ParseTriplet
    \/ ParseValueError
    \/ ParseNoMin
    \/ ParseBreak
    \/ ParseReturn

ParserSpec == ParserInit /\ [][ParserNext]_vars

\* The function runs to its end once called.
FairParserSpec == ParserSpec /\ WF_vars(ParserNext)

\* ----------------------------------------------------------- observations
\* The date and the entries of the k-th key of study_schedule.
DateAt(k) == study_schedule[k][1]
EntriesAt(k) == study_schedule[k][2]

\* The positions <<k, p>> of all entries of study_schedule.
Positions ==
    UNION {{<<k, p>> : p \in 1..Len(EntriesAt(k))} : k \in 1..Len(study_schedule)}

\* The input item an entry was produced for: titles are distinct per item.
ItemOf(entry) == CHOOSE k \in 1..Len(classes) : classes[k][2] = entry[2]

RECURSIVE SumSeq(_)
SumSeq(seq) == IF Len(seq) = 0 THEN 0 ELSE Head(seq) + SumSeq(Tail(seq))

\* Allocated minutes (field 3 of the model's 1-based entry) on the k-th date.
AllocatedOn(k) == SumSeq([p \in 1..Len(EntriesAt(k)) |-> EntriesAt(k)[p][3]])

\* Allocated minutes of item n on the k-th date, and over the whole schedule.
AllocatedOnFor(k, n) ==
    SumSeq([p \in 1..Len(EntriesAt(k)) |->
               IF ItemOf(EntriesAt(k)[p]) = n THEN EntriesAt(k)[p][3] ELSE 0])
AllocatedFor(n) == SumSeq([k \in 1..Len(study_schedule) |-> AllocatedOnFor(k, n)])

\* The number of entries produced for item n.
EntriesFor(n) == Cardinality({q \in Positions : ItemOf(EntriesAt(q[1])[q[2]]) = n})

\* schedule_classes has returned its schedule to the handler.
Returned == pc = "returned"

\* The request (class durations, multiplier, hours, study days, start date).
IsRequest(durations, multiplier, hours, days, start) ==
    /\ form.class_input = TripletLines(durations, 1)
    /\ form.multiplier = multiplier
    /\ form.daily_study_limit_hours = hours
    /\ form.study_days = days
    /\ form.start_date = start

C2_DayEligibility ==
    \A k \in 1..Len(study_schedule) : Weekday(DateAt(k)) \in study_days

\* C2 witness: the start date is not a study day and an entry was scheduled.
C2_Witness ==
    /\ pc \in {"for", "while", "done"}
    /\ Weekday(DateLiteral[form.start_date]) \notin study_days
    /\ Len(study_schedule) >= 2

C4_OrderPreservation ==
    \A q1 \in Positions, q2 \in Positions :
        ItemOf(EntriesAt(q1[1])[q1[2]]) < ItemOf(EntriesAt(q2[1])[q2[2]]) =>
            /\ DateAt(q1[1]) <= DateAt(q2[1])
            /\ DateAt(q1[1]) = DateAt(q2[1]) => q1[2] < q2[2]

\* C4 witness: two items share a date and the later item continues on a
\* later date.
C4_Witness ==
    /\ Returned
    /\ EntriesFor(1) >= 1
    /\ EntriesFor(2) >= 2
    /\ \E k \in 1..Len(study_schedule) : Len(EntriesAt(k)) = 2

\* The preconditions of termination: durations >= 0, a study day in 0..6 and
\* a daily limit > 0.
C5Pre ==
    /\ \A n \in 1..Len(classes) : classes[n][3] >= 0
    /\ study_days \cap (0..6) # {}
    /\ daily_study_limit_hours > 0

\* C5 as claimed: under the preconditions schedule_classes always returns,
\* so it is never left by an exception.
C5_AlwaysReturns == pc = "raised" => ~C5Pre

\* C5 Termination, amended: under the preconditions schedule_classes, once
\* called, eventually returns or raises OverflowError because current_date
\* would pass date.max.
C5_Terminates ==
    (pc = "for" /\ i = 0 /\ C5Pre) ~> (Returned \/ pc = "raised")

\* C5 witness: a run under the preconditions that skipped days, filled
\* several dates and returned.
C5_Witness ==
    /\ Returned
    /\ C5Pre
    /\ Len(study_schedule) >= 3
    /\ DateAt(Len(study_schedule)) - DateAt(1) >= 7

\* C6 Empty selection rejected: a request with no study day selected is
\* answered with an error and never enters schedule_classes.
C6_EmptyStudyDaysRejected ==
    form.study_days = <<>> =>
        /\ pc \notin {"for", "while", "raised"}
        /\ response # "success"

\* C7 Negative durations rejected: a run of an otherwise valid request (a
\* study day in 0..6, a daily limit > 0) in which a class with a negative
\* duration reached schedule_classes does not end in success.
C7_NegativeDurationRejected ==
    (/\ pc = "done"
     /\ study_days \cap (0..6) # {}
     /\ daily_study_limit_hours > 0
     /\ \E n \in 1..Len(classes) : classes[n][3] < 0) =>
        response # "success"

\* The list without its zero-duration items.
WithoutZero(cs) == SelectSeq(cs, LAMBDA c : c[3] # 0)

\* C8 Zero-duration items: no entry is ever produced for a zero-duration
\* item, and when schedule_classes has ended, its schedule, current_date and
\* time_left are those the same call produces for the list with the
\* zero-duration items removed.
C8_ZeroDurationSkipped ==
    /\ \A q \in Positions : classes[ItemOf(EntriesAt(q[1])[q[2]])][3] # 0
    /\ pc \in {"returned", "raised"} =>
          LET r == schedule_classes(WithoutZero(classes),
                       DateLiteral[form.start_date], study_days,
                       daily_study_limit_hours)
          IN  /\ r.locals.study_schedule = study_schedule
              /\ r.locals.current_date = current_date
              /\ r.locals.time_left = time_left
              /\ r.raised = (pc = "raised")

\* C8 witness: a zero-duration item lies between the start and a class that
\* was scheduled, and the call returned.
C8_Witness ==
    /\ Returned
    /\ Len(classes) = 2
    /\ classes[1][3] = 0
    /\ EntriesFor(2) >= 2

\* The entries of the schedule in iteration order, each as
\* <<date, allocated minutes, original duration>>.
RECURSIVE EntryList(_)
EntryList(k) ==
    IF k > Len(study_schedule) THEN <<>>
    ELSE [p \in 1..Len(EntriesAt(k)) |->
             <<DateAt(k), EntriesAt(k)[p][3], EntriesAt(k)[p][4]>>]
         \o EntryList(k + 1)

\* The split scenario: one class of 150 minutes, Monday and Tuesday eligible,
\* one hour a day, start on Monday 2024-01-01.
C9Scenario == IsRequest(<<"150">>, "1", "1", <<"0", "1">>, "2024-01-01")

\* C9 as claimed: the scenario yields (2024-01-01, 60, 150) and
\* (2024-01-02, 90, 150).
C9_SplitAsStated ==
    (C9Scenario /\ Returned) =>
        EntryList(1) = << <<0, ToFloat(60), ToFloat(150)>>,
                          <<1, ToFloat(90), ToFloat(150)>> >>

\* C9 Split scenario, amended: the scenario yields (2024-01-01, 60, 150),
\* (2024-01-02, 60, 150) and (2024-01-08, 30, 150): no date takes more than
\* the daily limit and the rest goes to the next Monday.
C9_SplitScenario ==
    (C9Scenario /\ Returned) =>
        EntryList(1) = << <<0, ToFloat(60), ToFloat(150)>>,
                          <<1, ToFloat(60), ToFloat(150)>>,
                          <<7, ToFloat(30), ToFloat(150)>> >>

\* C9 witness: the scenario has been scheduled and returned.
C9_Witness == C9Scenario /\ Returned /\ Len(study_schedule) >= 2

\* C10 Original duration: the original_duration field of every entry (index 3
\* in the code, the fourth component here) is the
\* full input duration of the item the entry was produced for.
C10_OriginalDuration ==
    \A q \in Positions :
        EntriesAt(q[1])[q[2]][4] = classes[ItemOf(EntriesAt(q[1])[q[2]])][3]

\* C10 witness: an item is split and a fragment is shorter than the item.
C10_Witness ==
    \E q \in Positions :
        /\ EntriesFor(ItemOf(EntriesAt(q[1])[q[2]])) >= 2
        /\ EntriesAt(q[1])[q[2]][3] < EntriesAt(q[1])[q[2]][4]

\* The start date of the request being served.
StartDate == DateLiteral[form.start_date]

\* d is the first date on or after the start date whose weekday is in
\* study_days.
FirstEligible(d) ==
    /\ d >= StartDate
    /\ Weekday(d) \in study_days
    /\ \A e \in StartDate..(d - 1) : Weekday(e) \notin study_days

\* C11 Ineligible start days are skipped: the earliest date of the schedule
\* is the first date on or after start_date whose weekday is in study_days,
\* it is start_date itself when start_date is eligible, a returned schedule
\* has such a date as soon as one item has a positive duration, and a start
\* on Tuesday 2024-01-02 with only Monday eligible gives 2024-01-08.
C11_IneligibleStartSkipped ==
    /\ Len(study_schedule) >= 1 =>
          /\ FirstEligible(DateAt(1))
          /\ \A k \in 1..Len(study_schedule) : DateAt(1) <= DateAt(k)
          /\ Weekday(StartDate) \in study_days => DateAt(1) = StartDate
    /\ (Returned /\ \E n \in 1..Len(classes) : classes[n][3] > 0) =>
          Len(study_schedule) >= 1
    /\ (Returned /\ IsRequest(<<"60">>, "1", "1", <<"0">>, "2024-01-02")) =>
          /\ Len(study_schedule) = 1
          /\ DateAt(1) = DateLiteral["2024-01-01"] + 7

\* C11 witness: the Tuesday request has returned with 2024-01-08 as its
\* only date, six ineligible days after the start.
C11_Witness ==
    /\ Returned
    /\ IsRequest(<<"60">>, "1", "1", <<"0">>, "2024-01-02")
    /\ Len(study_schedule) = 1
    /\ DateAt(1) = StartDate + 6

\* The positions of the entries produced for item n, and the first of them
\* in schedule order.
PositionsFor(n) == {q \in Positions : ItemOf(EntriesAt(q[1])[q[2]]) = n}
Before(q, r) == q[1] < r[1] \/ (q[1] = r[1] /\ q[2] < r[2])
FirstPosition(n) ==
    CHOOSE q \in PositionsFor(n) : \A r \in PositionsFor(n) \ {q} : Before(q, r)
LastPosition(n) ==
    CHOOSE q \in PositionsFor(n) : \A r \in PositionsFor(n) \ {q} : Before(r, q)

\* The minutes allocated on the k-th date by its first p entries, and the
\* time that was left on that date when its p-th entry was appended.
AllocatedUpTo(k, p) == SumSeq([q \in 1..p |-> EntriesAt(k)[q][3]])
TimeLeftBefore(k, p) ==
    LimitMinutes(daily_study_limit_hours) - AllocatedUpTo(k, p - 1)

\* C12 An item that fits is not split: when the duration of an item is at
\* most the time that was left on the date of its first entry, the item has
\* exactly one entry, whose allocated minutes equal its original duration;
\* a single 90-minute item with a 120-minute limit from Monday 2024-01-01
\* gives one date with one entry, allocated 90 and original 90.
C12_FittingItemNotSplit ==
    /\ \A n \in 1..Len(classes) :
          PositionsFor(n) # {} =>
              LET q == FirstPosition(n)
                  entry == EntriesAt(q[1])[q[2]]
              IN  classes[n][3] <= TimeLeftBefore(q[1], q[2]) =>
                      /\ PositionsFor(n) = {q}
                      /\ entry[3] = classes[n][3]
                      /\ entry[4] = classes[n][3]
    /\ (Returned /\ IsRequest(<<"60">>, "1.5", "2", <<"0">>, "2024-01-01")) =>
          /\ Len(study_schedule) = 1
          /\ DateAt(1) = StartDate
          /\ Len(EntriesAt(1)) = 1
          /\ EntriesAt(1)[1][3] = ToFloat(90)
          /\ EntriesAt(1)[1][4] = ToFloat(90)

\* C12 witness: the 90-minute request has returned with one date, of which
\* 30 minutes are left after its entry.
C12_Witness ==
    /\ Returned
    /\ IsRequest(<<"60">>, "1.5", "2", <<"0">>, "2024-01-01")
    /\ Len(study_schedule) = 1
    /\ TimeLeftBefore(1, 2) = ToFloat(30)

\* The items that have an entry, and the next such item after item a.
Scheduled == {n \in 1..Len(classes) : PositionsFor(n) # {}}
FollowedBy(a, b) ==
    /\ a \in Scheduled
    /\ b \in Scheduled
    /\ a < b
    /\ \A n \in Scheduled : ~(a < n /\ n < b)

\* e is the first date after d whose weekday is in study_days.
NextEligible(d, e) ==
    /\ e > d
    /\ Weekday(e) \in study_days
    /\ \A x \in (d + 1)..(e - 1) : Weekday(x) \notin study_days

\* C13 Exact-fit tie-break: once the entries of a date add up to the daily
\* limit nothing more is appended to that date and, while schedule_classes
\* runs and when it has returned, the cursor is past it;
\* when the last entry of an item spends the budget of its date exactly,
\* the first entry of the next item that is scheduled opens the next
\* eligible date.
C13_ExactFitAdvances ==
    /\ \A q \in Positions :
          AllocatedUpTo(q[1], q[2]) >= LimitMinutes(daily_study_limit_hours) =>
              /\ q[2] = Len(EntriesAt(q[1]))
              /\ pc \in {"for", "while", "returned"} =>
                     current_date > DateAt(q[1])
    /\ \A a, b \in Scheduled :
          LET qa == LastPosition(a)
              qb == FirstPosition(b)
          IN  (/\ FollowedBy(a, b)
               /\ AllocatedUpTo(qa[1], qa[2]) =
                      LimitMinutes(daily_study_limit_hours)) =>
                  /\ qb = <<qa[1] + 1, 1>>
                  /\ NextEligible(DateAt(qa[1]), DateAt(qb[1]))

\* C13 witness: the first item fits the budget of its date exactly and the
\* second item starts on the next eligible date, more than a day later.
C13_Witness ==
    /\ Returned
    /\ Len(classes) = 2
    /\ PositionsFor(1) = {<<1, 1>>}
    /\ classes[1][3] = LimitMinutes(daily_study_limit_hours)
    /\ EntriesAt(1)[1][3] = classes[1][3]
    /\ PositionsFor(2) # {}
    /\ FirstPosition(2) = <<2, 1>>
    /\ DateAt(2) > DateAt(1) + 1

\* C14 Same-day continuation: while the entries of the latest date add up
\* to less than the daily limit the cursor stays on that date with the rest
\* of its budget, and when the last entry of an item leaves time on its
\* date, the first entry of the next item that is scheduled is appended to
\* that same date, right after it.
C14_SameDayContinuation ==
    /\ (/\ pc \in {"for", "while", "returned"}
        /\ Len(study_schedule) >= 1
        /\ AllocatedOn(Len(study_schedule)) <
               LimitMinutes(daily_study_limit_hours)) =>
          /\ current_date = DateAt(Len(study_schedule))
          /\ time_left = LimitMinutes(daily_study_limit_hours)
                             - AllocatedOn(Len(study_schedule))
    /\ \A a, b \in Scheduled :
          LET qa == LastPosition(a)
              qb == FirstPosition(b)
          IN  (/\ FollowedBy(a, b)
               /\ AllocatedUpTo(qa[1], qa[2]) <
                      LimitMinutes(daily_study_limit_hours)) =>
                  qb = <<qa[1], qa[2] + 1>>

\* C14 witness: the first item left time on its date and the second item
\* has its first entry on that date and goes on to a later one.
C14_Witness ==
    /\ Returned
    /\ Scheduled = {1, 2}
    /\ LastPosition(1) = <<1, 1>>
    /\ AllocatedUpTo(1, 1) < LimitMinutes(daily_study_limit_hours)
    /\ FirstPosition(2) = <<1, 2>>
    /\ LastPosition(2) = <<2, 1>>

\* C15 One entry per date touched: no date holds two entries produced for
\* the same item, and the entries of an item, in schedule order, are on
\* strictly increasing dates.
C15_OneEntryPerDate ==
    \A n \in 1..Len(classes) :
        \A q, r \in PositionsFor(n) :
            /\ q # r => q[1] # r[1]
            /\ Before(q, r) => DateAt(q[1]) < DateAt(r[1])

\* C15 witness: the first item is split over three dates and the second
\* starts on the last of them and is split as well.
C15_Witness ==
    /\ Returned
    /\ Scheduled = {1, 2}
    /\ Cardinality(PositionsFor(1)) = 3
    /\ Cardinality(PositionsFor(2)) = 2
    /\ FirstPosition(2)[1] = LastPosition(1)[1]

\* The list generate_schedule passes to schedule_classes.
AdjustedClasses ==
    apply_multiplier(parse_udemy_list(form.class_input),
                     ParseFloat(form.multiplier)[2])

\* schedule_classes has been entered for the request.
Entered == pc \in {"for", "while", "returned", "raised"}

\* C16 No side effects on the inputs: from the entry of schedule_classes to
\* its end the classes list is the list that was passed in, item by item;
\* every schedule entry is a four-field list of its own and not one of the
\* three-field input items; and scheduling the list again after the return
\* gives the returned schedule.
C16_InputsUnchanged ==
    /\ Entered => classes = AdjustedClasses
    /\ Entered =>
          \A q \in Positions :
              /\ Len(EntriesAt(q[1])[q[2]]) = 4
              /\ \A n \in 1..Len(classes) :
                    /\ Len(classes[n]) = 3
                    /\ EntriesAt(q[1])[q[2]] # classes[n]
    /\ Returned =>
          LET again == schedule_classes(classes, StartDate, study_days,
                                        daily_study_limit_hours)
          IN  /\ ~again.raised
              /\ again.locals.study_schedule = study_schedule

\* C16 witness: schedule_classes has returned after it split an item of a
\* two-item list over several dates.
C16_Witness ==
    /\ Returned
    /\ Len(classes) = 2
    /\ classes = AdjustedClasses
    /\ \E n \in Scheduled : Cardinality(PositionsFor(n)) >= 2

\* The list parse_udemy_list gives for the request, before the multiplier.
ParsedClasses == parse_udemy_list(form.class_input)

\* C17 Multiplier applied before scheduling: the list that is scheduled has
\* the parsed items in the same order with the same status and title and
\* with duration * multiplier, and in the schedule returned for a request
\* with a study day in 0..6 and a daily limit > 0 the allocated minutes of
\* every item add up to its duration * multiplier; 60 minutes with
\* multiplier 1.5 give 90.
C17_MultiplierApplied ==
    /\ Entered =>
          /\ Len(classes) = Len(ParsedClasses)
          /\ \A n \in 1..Len(classes) :
                /\ classes[n][1] = ParsedClasses[n][1]
                /\ classes[n][2] = ParsedClasses[n][2]
                /\ classes[n][3] * Scale =
                       ToFloat(ParsedClasses[n][3]) * FloatLiteral[form.multiplier]
    /\ (/\ Returned
        /\ study_days \cap (0..6) # {}
        /\ daily_study_limit_hours > 0) =>
          \A n \in 1..Len(classes) :
              AllocatedFor(n) * Scale =
                  ToFloat(ParsedClasses[n][3]) * FloatLiteral[form.multiplier]
    /\ (Returned /\ IsRequest(<<"60">>, "1.5", "1", <<"0">>, "2024-01-01")) =>
          AllocatedFor(1) = ToFloat(90)

\* The handler answered success: the calendar was built from the schedule.
Succeeded == pc = "done" /\ response = "success"

\* The date an event starts on.
EventDate(event) == event.dtstart.minutes \div (24 * 60)

\* C18 One event per date, in ascending date order: the keys of the
\* schedule are inserted in strictly increasing date order at every point
\* of the scheduling, and the calendar that is built has exactly one event
\* per key, the k-th event on the k-th date, so that the events are in
\* strictly ascending order of their start.
C18_OneEventPerDateAscending ==
    /\ \A j, k \in 1..Len(study_schedule) : j < k => DateAt(j) < DateAt(k)
    /\ Succeeded =>
          /\ Len(events) = Len(study_schedule)
          /\ \A k \in 1..Len(events) : EventDate(events[k]) = DateAt(k)
          /\ \A j, k \in 1..Len(events) :
                j < k => events[j].dtstart.minutes < events[k].dtstart.minutes

\* C18 witness: a calendar of three events or more whose dates are not all
\* consecutive days.
C18_Witness ==
    /\ Succeeded
    /\ Len(events) >= 3
    /\ EventDate(events[3]) > EventDate(events[1]) + 2

\* C19 Event length is the daily budget: every event of the calendar starts
\* on its date at the start time of the request and ends exactly
\* daily_study_limit_hours * 60 minutes later, in the same zone, however
\* many minutes are allocated on the date.
C19_EventLengthIsDailyLimit ==
    Succeeded =>
        \A k \in 1..Len(events) :
            /\ k <= Len(study_schedule)
            /\ events[k].dtstart.minutes =
                   DateAt(k) * (24 * 60) + TimeLiteral[start_time_str]
            /\ events[k].dtend.minutes - events[k].dtstart.minutes =
                   daily_study_limit_hours * 60
            /\ events[k].dtend.utcoffset = events[k].dtstart.utcoffset
            /\ events[k].dtstart.utcoffset = ZoneOffset["America/Sao_Paulo"]

\* C19 witness: a calendar of two events or more from 23:30 on, so that the
\* events end on the day after, the last one for a date whose allocated
\* minutes are less than the daily limit.
C19_Witness ==
    /\ Succeeded
    /\ Len(events) >= 2
    /\ start_time_str = "23:30"
    /\ events[1].dtend.minutes \div (24 * 60) = EventDate(events[1]) + 1
    /\ AllocatedOn(Len(study_schedule)) < LimitMinutes(daily_study_limit_hours)

\* The number a sequence of decimal digits denotes, and the seconds an
\* HH:MM:SS text <<hours digits, minutes digits, seconds digits>> denotes.
RECURSIVE DigitsValue(_)
DigitsValue(digits) ==
    IF Len(digits) = 0 THEN 0
    ELSE DigitsValue(SubSeq(digits, 1, Len(digits) - 1)) * 10 + digits[Len(digits)]
SecondsOf(text) ==
    DigitsValue(text[1]) * 3600 + DigitsValue(text[2]) * 60 + DigitsValue(text[3])

\* text is the HH:MM:SS of a duration given in minutes (fixed point).
IsHMSOf(text, m) ==
    /\ Len(text) = 3
    /\ \A f \in 1..3 : Len(text[f]) >= 2
    /\ DigitsValue(text[2]) < 60
    /\ DigitsValue(text[3]) < 60
    /\ SecondsOf(text) * Scale = m * 60

\* C20 Description lines: between its heading and its closing line the
\* description of the k-th event has exactly one line per entry of the k-th
\* date, in the order of the entries, each with the title of its entry and
\* the HH:MM:SS of the original duration of the entry (field 4 here, field 3
\* in the code), not of the allocated minutes of the fragment, so that the
\* lines of a split item show the same duration on every date.
C20_DescriptionShowsOriginal ==
    Succeeded =>
        /\ \A k \in 1..Len(events) :
              LET lines == events[k].description
              IN  /\ Len(lines) = Len(EntriesAt(k)) + 2
                  /\ lines[1] = "Classes for today:"
                  /\ lines[Len(lines)] = "Update as you complete each class!"
                  /\ \A p \in 1..Len(EntriesAt(k)) :
                        LET entry == EntriesAt(k)[p]
                            line == lines[p + 1]
                        IN  /\ line[2] = entry[2]
                            /\ IsHMSOf(line[3], entry[4])
                            /\ entry[3] # entry[4] => ~IsHMSOf(line[3], entry[3])
        /\ \A n \in Scheduled :
              \A q, r \in PositionsFor(n) :
                  events[q[1]].description[q[2] + 1] =
                      events[r[1]].description[r[2] + 1]

\* C20 witness: a calendar for a 150-minute item split over three dates,
\* shown as 02:30:00 on the first and on the last of them, where the last
\* date has the line of a second item as well.
C20_Witness ==
    /\ Succeeded
    /\ Scheduled = {1, 2}
    /\ Cardinality(PositionsFor(1)) = 3
    /\ Len(EntriesAt(3)) = 2
    /\ events[1].description[2][3] = <<<<0, 2>>, <<3, 0>>, <<0, 0>>>>
    /\ events[3].description[2][3] = <<<<0, 2>>, <<3, 0>>, <<0, 0>>>>
    /\ EntriesAt(3)[1][3] = ToFloat(30)

\* C21 HH:MM:SS floors: for a duration of m >= 0 minutes the text that is
\* rendered has two digits or more per field, minutes and seconds below 60,
\* and its fields denote hh*3600 + mm*60 + ss = floor(m * 60) seconds, the
\* largest whole number of seconds not above m * 60; 90.5 minutes are
\* rendered as 01:30:30.
C21_RenderingFloors ==
    duration_str # <<>> =>
        /\ Len(duration_str) = 3
        /\ \A f \in 1..3 : Len(duration_str[f]) >= 2
        /\ DigitsValue(duration_str[2]) < 60
        /\ DigitsValue(duration_str[3]) < 60
        /\ SecondsOf(duration_str) * RenderScale <= duration_minutes * 60
        /\ duration_minutes * 60 < (SecondsOf(duration_str) + 1) * RenderScale
        /\ duration_minutes * 2 = 181 * RenderScale =>
               duration_str = <<<<0, 1>>, <<3, 0>>, <<3, 0>>>>

\* C21 witness: a duration of 90.5 minutes and half a second was rendered,
\* as 01:30:30.
C21_Witness ==
    /\ duration_minutes = 90 * RenderScale + RenderScale \div 2 + 1
    /\ duration_str = <<<<0, 1>>, <<3, 0>>, <<3, 0>>>>

\* schedule_classes has reached an item of positive duration and no value
\* of study_days is a weekday.
C22Pre ==
    /\ study_days \cap (0..6) = {}
    /\ i \in 1..Len(classes)
    /\ classes[i][3] > 0

\* C22 as stated: with no eligible weekday and an item of positive duration
\* schedule_classes stays in its while loop for good, with time_left at the
\* daily limit and without an entry in the schedule.
C22_LoopsForever ==
    C22Pre =>
        /\ pc = "while"
        /\ time_left = LimitMinutes(daily_study_limit_hours)
        /\ study_schedule = <<>>

\* C22 amended: with no eligible weekday and an item of positive duration
\* schedule_classes never returns a schedule; while its loop advances
\* current_date day by day time_left is the daily limit and the schedule
\* has no entry, and the loop ends when line 63 raises OverflowError at the
\* last date, which the handler answers with an error.
C22_RaisesAtLastDate ==
    /\ [](C22Pre =>
            /\ pc \in {"while", "raised", "done"}
            /\ pc = "done" => response = "error500"
            /\ pc = "raised" => current_date = MaxDate
            /\ time_left = LimitMinutes(daily_study_limit_hours)
            /\ study_schedule = <<>>)
    /\ (pc = "while" /\ C22Pre) ~> (pc = "raised")

\* C22 witness: OverflowError was raised at the last date after the loop
\* had advanced over more than a week without an eligible day.
C22_Witness ==
    /\ C22Pre
    /\ pc = "raised"
    /\ current_date = MaxDate
    /\ StartDate + 7 < MaxDate
    /\ study_schedule = <<>>

\* C23 Entry bounds: when the daily limit is positive every entry has
\* 0 < allocated minutes <= daily limit and allocated minutes <= original
\* duration, every date of the schedule has an entry, and time_left is
\* positive whenever the loop is about to allocate on an eligible date.
C23_EntryBounds ==
    daily_study_limit_hours > 0 =>
        /\ \A k \in 1..Len(study_schedule) : Len(EntriesAt(k)) >= 1
        /\ \A q \in Positions :
              LET entry == EntriesAt(q[1])[q[2]]
              IN  /\ 0 < entry[3]
                  /\ entry[3] <= LimitMinutes(daily_study_limit_hours)
                  /\ entry[3] <= entry[4]
        /\ (/\ pc = "while"
            /\ remaining_duration > 0
            /\ Weekday(current_date) \in study_days) => time_left > 0

\* C23 witness: a returned schedule with a fragment shorter than its
\* original duration, a date with two entries and a date filled by one.
C23_Witness ==
    /\ Returned
    /\ daily_study_limit_hours > 0
    /\ \E q \in Positions : EntriesAt(q[1])[q[2]][3] < EntriesAt(q[1])[q[2]][4]
    /\ \E k \in 1..Len(study_schedule) : Len(EntriesAt(k)) = 2
    /\ \E q \in Positions :
          EntriesAt(q[1])[q[2]][3] = LimitMinutes(daily_study_limit_hours)

C25_NoEligibleDayLeftEmpty ==
    Len(study_schedule) >= 1 =>
        LET scheduled == {DateAt(k) : k \in 1..Len(study_schedule)}
            last == DateAt(Len(study_schedule))
        IN  /\ \A d \in scheduled : d <= last
            /\ scheduled = {d \in StartDate..last : Weekday(d) \in study_days}
            /\ Cardinality(scheduled) = Len(study_schedule)

\* C25 witness: a returned schedule of three dates that starts after an
\* ineligible start date and has ineligible days between its dates.
C25_Witness ==
    /\ Returned
    /\ Len(study_schedule) = 3
    /\ DateAt(1) > StartDate
    /\ DateAt(3) > DateAt(1) + 2

\* The first three fields (status, title, allocated minutes) of the entries
\* of the schedule, date by date.
FirstThreeFields ==
    [k \in 1..Len(study_schedule) |->
        <<DateAt(k),
          [p \in 1..Len(EntriesAt(k)) |->
              <<EntriesAt(k)[p][1], EntriesAt(k)[p][2], EntriesAt(k)[p][3]>>]>>]

\* C26 Legacy equivalence: for the items, start date, study days and daily
\* limit with which schedule_classes has returned, the legacy scheduler of
\* src/app.py returns as well, and what is read in its schedule after the
\* return are the same dates with the same sequences of (status, title,
\* allocated minutes).
C26_LegacyEquivalent ==
    Returned =>
        LET legacy == legacy_schedule_classes(classes, StartDate, study_days,
                                              daily_study_limit_hours)
        IN  /\ ~legacy.raised
            /\ LegacyRead(legacy.locals) = FirstThreeFields

\* The routes that need the saved credentials.
AuthenticatedRoutes ==
    {"/google/calendars", "/google/import-calendar", "/google/upload-drive"}

\* C27 Credentials survive across requests: once /oauth2callback has
\* answered a browser with success, the session of that browser holds the
\* credentials and no later request of that browser to a route that needs
\* them is answered with 401.
C27_CredentialsSurvive ==
    \A j \in 1..Len(google_log) :
        (google_log[j].route = "/oauth2callback" /\ google_log[j].status = 200) =>
            /\ "google_credentials" \in session[google_log[j].browser]
            /\ \A k \in (j + 1)..Len(google_log) :
                  (/\ google_log[k].browser = google_log[j].browser
                   /\ google_log[k].route \in AuthenticatedRoutes) =>
                      google_log[k].status # 401

\* C28 Singleton accessor: at most one HTMLCourseParser is ever constructed
\* and all calls of get_html_parser that return, in whatever thread and
\* however interleaved, return one and the same object.
C28_SingleInstance ==
    /\ constructed <= 1
    /\ \A t, u \in Threads :
          \A j \in 1..Len(thread_result[t]), k \in 1..Len(thread_result[u]) :
              (thread_result[t][j] # <<"ValueError">> /\ thread_result[u][k] # <<"ValueError">>)
                  => thread_result[t][j] = thread_result[u][k]

\* An input made of well-formed triplets with lines without 'min' around
\* and between them: every line with 'min' is '<integer>min' and the two
\* lines before it have no 'min'.
WellFormedInput(lines) ==
    \A p \in 1..Len(lines) :
        ContainsMin(lines[p]) =>
            /\ ParseDuration(lines[p])[1]
            /\ p >= 3
            /\ ~ContainsMin(lines[p - 1])
            /\ ~ContainsMin(lines[p - 2])

\* The triplets of a well-formed input from line p on, in input order.
RECURSIVE TripletsFrom(_, _)
TripletsFrom(lines, p) ==
    IF p > Len(lines) THEN <<>>
    ELSE IF ContainsMin(lines[p])
         THEN <<(<<lines[p - 2], lines[p - 1], ParseDuration(lines[p])[2]>>)>>
              \o TripletsFrom(lines, p + 1)
         ELSE TripletsFrom(lines, p + 1)

\* C29 parse_udemy_list returns on every input, and on a well-formed input
\* it returns exactly one (status, title, integer) item per triplet, in
\* input order, whatever lines without 'min' stand between the triplets.
C29_ParserSkipsLineByLine ==
    /\ [](parser_pc = "returned" /\ WellFormedInput(input_lines)
            => parsed_classes = TripletsFrom(input_lines, 1))
    /\ (parser_pc = "call" ~> parser_pc = "returned")

\* Two triplets with a line between them were parsed into two items.
C29_Witness ==
    /\ parser_pc = "returned"
    /\ WellFormedInput(input_lines)
    /\ Len(input_lines) = 7
    /\ ContainsMin(input_lines[3])
    /\ ContainsMin(input_lines[7])
    /\ Len(parsed_classes) = 2

====
